---- MODULE Spec2Model ----
(***************************************************************************)
(* A model of chess.py: the Board rules engine (attack detection, pseudo-  *)
(* legal generation, the legality filter, move application) and the click  *)
(* handler of ChessGUI that drives it.                                     *)
(*                                                                         *)
(* Encoding of Python values:                                              *)
(*   a cell          "."            -> Empty = <<".">>                     *)
(*                   (color, kind)  -> <<color, kind>>                     *)
(*   a square        (r, c)         -> <<r, c>>                            *)
(*   None            (square)       -> NoSquare = <<>>                     *)
(*   None            (color)        -> NoColor = "."                       *)
(*   None            (promotion)    -> NoPromo = "None"                    *)
(*   a list          [...]          -> a sequence                          *)
(***************************************************************************)
EXTENDS Integers, Sequences, FiniteSets, TLC

WHITE == "w"
BLACK == "b"
Empty == <<".">>
NoSquare == <<>>
NoColor == "."
NoPromo == "None"

other(color) == IF color = BLACK THEN WHITE ELSE BLACK

abs(x) == IF x < 0 THEN -x ELSE x

\* Move(fr, to, promotion=None, is_castle=False, is_en_passant=False)
Move(fr, to) ==
  [fr |-> fr, to |-> to, promotion |-> NoPromo, is_castle |-> FALSE, is_en_passant |-> FALSE]

in_bounds(r, c) == 0 <= r /\ r < 8 /\ 0 <= c /\ c < 8

back == <<"R", "N", "B", "Q", "K", "B", "N", "R">>

\* Board._setup: the grid of the standard initial position
setup ==
  [r \in 0..7 |-> [c \in 0..7 |->
     IF r = 7 THEN <<WHITE, back[c + 1]>>
     ELSE IF r = 0 THEN <<BLACK, back[c + 1]>>
     ELSE IF r = 6 THEN <<WHITE, "P">>
     ELSE IF r = 1 THEN <<BLACK, "P">>
     ELSE Empty]]

\* Board(): the object after construction
Board ==
  [board |-> setup,
   turn |-> WHITE,
   castling |-> [wK |-> TRUE, wQ |-> TRUE, bK |-> TRUE, bQ |-> TRUE],
   en_passant |-> NoSquare]

color_at(g, r, c) == IF g[r][c] = Empty THEN NoColor ELSE g[r][c][1]

\* king_pos: the first square, in the order of the two nested range(8) loops,
\* that holds (color, "K"); None when there is none
king_pos(g, color) ==
  LET ks == {sq \in 0..63 : g[sq \div 8][sq % 8] = <<color, "K">>}
  IN IF ks = {} THEN NoSquare
     ELSE LET sq == CHOOSE s \in ks : \A t \in ks : s <= t
          IN <<sq \div 8, sq % 8>>

\* a slip in the list of knight offsets: (2, 1) typed for (-2, 1)
knight_offsets_typo ==
  <<<<-2, -1>>, <<2, 1>>, <<-1, -2>>, <<-1, 2>>, <<1, -2>>, <<1, 2>>, <<2, -1>>, <<2, 1>>>>

knight_offsets ==
  <<<<-2, -1>>, <<-2, 1>>, <<-1, -2>>, <<-1, 2>>, <<1, -2>>, <<1, 2>>, <<2, -1>>, <<2, 1>>>>
diagonal_dirs == <<<<-1, -1>>, <<-1, 1>>, <<1, -1>>, <<1, 1>>>>
orthogonal_dirs == <<<<-1, 0>>, <<1, 0>>, <<0, -1>>, <<0, 1>>>>
king_offsets ==
  <<<<-1, -1>>, <<-1, 0>>, <<-1, 1>>, <<0, -1>>, <<0, 1>>, <<1, -1>>, <<1, 0>>, <<1, 1>>>>

\* the pawn clause of is_attacked: dr = -1 if by_color == WHITE else 1
pawn_attacks(g, r, c, by_color) ==
  LET dr == IF by_color = WHITE THEN -1 ELSE 1
  IN \E dc \in {-1, 1} :
       in_bounds(r + dr, c + dc) /\ g[r + dr][c + dc] = <<by_color, "P">>

\* one while loop of is_attacked: the first occupied square on the ray
RECURSIVE ray_attacks(_, _, _, _, _, _, _)
ray_attacks(g, rr, cc, dr, dc, by_color, kinds) ==
  IF ~in_bounds(rr, cc) THEN FALSE
  ELSE IF g[rr][cc] # Empty
       THEN g[rr][cc][1] = by_color /\ g[rr][cc][2] \in kinds
       ELSE ray_attacks(g, rr + dr, cc + dc, dr, dc, by_color, kinds)

is_attacked(g, r, c, by_color) ==
  \/ pawn_attacks(g, r, c, by_color)
  \/ \E i \in 1..8 :
       LET rr == r + knight_offsets[i][1]
           cc == c + knight_offsets[i][2]
       IN in_bounds(rr, cc) /\ g[rr][cc] = <<by_color, "N">>
  \/ \E i \in 1..4 :
       ray_attacks(g, r + diagonal_dirs[i][1], c + diagonal_dirs[i][2],
                   diagonal_dirs[i][1], diagonal_dirs[i][2], by_color, {"B", "Q"})
  \/ \E i \in 1..4 :
       ray_attacks(g, r + orthogonal_dirs[i][1], c + orthogonal_dirs[i][2],
                   orthogonal_dirs[i][1], orthogonal_dirs[i][2], by_color, {"R", "Q"})
  \/ \E i \in 1..8 :
       LET rr == r + king_offsets[i][1]
           cc == c + king_offsets[i][2]
       IN in_bounds(rr, cc) /\ g[rr][cc] = <<by_color, "K">>

\* in_check unpacks king_pos(color): a TypeError when there is no such king
in_check_raises(g, color) == king_pos(g, color) = NoSquare

in_check(g, color) ==
  LET k == king_pos(g, color)
  IN is_attacked(g, k[1], k[2], other(color))

promo_kinds == <<"Q", "R", "B", "N">>

\* the promotion loop left out: one move to the last row, promotion unset
promotions_unset(fr, to) == <<Move(fr, to)>>

promotions(fr, to) ==
  [i \in 1..4 |-> [Move(fr, to) EXCEPT !.promotion = promo_kinds[i]]]

\* the pawn branch of generate_pseudo for the pawn of `color` on (r, c)
pawn_moves(B, color, r, c) ==
  LET g == B.board
      dir == IF color = WHITE THEN -1 ELSE 1
      rr == r + dir
      rr2 == r + 2 * dir
      push ==
        IF in_bounds(rr, c) /\ g[rr][c] = Empty
        THEN (IF rr \in {0, 7} THEN promotions(<<r, c>>, <<rr, c>>)
              ELSE <<Move(<<r, c>>, <<rr, c>>)>>)
             \o (IF ((r = 6 /\ color = WHITE) \/ (r = 1 /\ color = BLACK))
                    /\ g[rr2][c] = Empty
                 THEN <<Move(<<r, c>>, <<rr2, c>>)>>
                 ELSE <<>>)
        ELSE <<>>
      capture(dc) ==
        LET cc == c + dc
        IN IF in_bounds(rr, cc) /\ g[rr][cc] # Empty /\ color_at(g, rr, cc) # color
           THEN (IF rr \in {0, 7} THEN promotions(<<r, c>>, <<rr, cc>>)
                 ELSE <<Move(<<r, c>>, <<rr, cc>>)>>)
           ELSE <<>>
      ep ==
        IF B.en_passant # NoSquare
           /\ B.en_passant[1] = r + dir /\ abs(B.en_passant[2] - c) = 1
        THEN <<[Move(<<r, c>>, B.en_passant) EXCEPT !.is_en_passant = TRUE]>>
        ELSE <<>>
  IN push \o capture(-1) \o capture(1) \o ep

\* the offsets loop of the knight and king branches
RECURSIVE step_moves(_, _, _, _, _, _)
step_moves(g, color, r, c, offsets, i) ==
  IF i > Len(offsets) THEN <<>>
  ELSE LET rr == r + offsets[i][1]
           cc == c + offsets[i][2]
       IN (IF in_bounds(rr, cc) /\ color_at(g, rr, cc) # color
           THEN <<Move(<<r, c>>, <<rr, cc>>)>> ELSE <<>>)
          \o step_moves(g, color, r, c, offsets, i + 1)

\* one while loop of the B/R/Q branch
RECURSIVE slide_moves(_, _, _, _, _, _, _)
slide_moves(g, color, fr, rr, cc, dr, dc) ==
  IF ~in_bounds(rr, cc) THEN <<>>
  ELSE IF g[rr][cc] = Empty
       THEN <<Move(fr, <<rr, cc>>)>> \o slide_moves(g, color, fr, rr + dr, cc + dc, dr, dc)
       ELSE IF color_at(g, rr, cc) # color THEN <<Move(fr, <<rr, cc>>)>> ELSE <<>>

RECURSIVE slider_dirs(_, _, _, _, _, _)
slider_dirs(g, color, r, c, dirs, i) ==
  IF i > Len(dirs) THEN <<>>
  ELSE slide_moves(g, color, <<r, c>>, r + dirs[i][1], c + dirs[i][2], dirs[i][1], dirs[i][2])
       \o slider_dirs(g, color, r, c, dirs, i + 1)

slider_moves(g, color, r, c, p) ==
  slider_dirs(g, color, r, c,
              (IF p \in {"B", "Q"} THEN diagonal_dirs ELSE <<>>)
              \o (IF p \in {"R", "Q"} THEN orthogonal_dirs ELSE <<>>), 1)

castle(fr, to) == [Move(fr, to) EXCEPT !.is_castle = TRUE]

\* the castling part of the king branch
castle_moves(B, color) ==
  LET g == B.board
  IN IF in_check(g, color) THEN <<>>
     ELSE IF color = WHITE
     THEN (IF B.castling.wK /\ g[7][5] = Empty /\ g[7][6] = Empty
              /\ ~is_attacked(g, 7, 5, BLACK) /\ ~is_attacked(g, 7, 6, BLACK)
           THEN <<castle(<<7, 4>>, <<7, 6>>)>> ELSE <<>>)
          \o (IF B.castling.wQ /\ g[7][1] = Empty /\ g[7][2] = Empty /\ g[7][3] = Empty
                 /\ ~is_attacked(g, 7, 3, BLACK) /\ ~is_attacked(g, 7, 2, BLACK)
              THEN <<castle(<<7, 4>>, <<7, 2>>)>> ELSE <<>>)
     ELSE (IF B.castling.bK /\ g[0][5] = Empty /\ g[0][6] = Empty
              /\ ~is_attacked(g, 0, 5, WHITE) /\ ~is_attacked(g, 0, 6, WHITE)
           THEN <<castle(<<0, 4>>, <<0, 6>>)>> ELSE <<>>)
          \o (IF B.castling.bQ /\ g[0][1] = Empty /\ g[0][2] = Empty /\ g[0][3] = Empty
                 /\ ~is_attacked(g, 0, 3, WHITE) /\ ~is_attacked(g, 0, 2, WHITE)
              THEN <<castle(<<0, 4>>, <<0, 2>>)>> ELSE <<>>)

\* the body of the two nested loops of generate_pseudo for the square (r, c)
piece_moves(B, color, r, c) ==
  LET g == B.board
  IN IF color_at(g, r, c) # color THEN <<>>
     ELSE LET p == g[r][c][2]
          IN IF p = "P" THEN pawn_moves(B, color, r, c)
             ELSE IF p = "N" THEN step_moves(g, color, r, c, knight_offsets, 1)
             ELSE IF p \in {"B", "R", "Q"} THEN slider_moves(g, color, r, c, p)
             ELSE step_moves(g, color, r, c, king_offsets, 1) \o castle_moves(B, color)

\* the inner loop, for c in range(8), from column c on
RECURSIVE row_moves(_, _, _, _)
row_moves(B, color, r, c) ==
  IF c = 8 THEN <<>>
  ELSE piece_moves(B, color, r, c) \o row_moves(B, color, r, c + 1)

\* the outer loop, for r in range(8), from row r on
RECURSIVE scan_moves(_, _, _)
scan_moves(B, color, r) ==
  IF r = 8 THEN <<>>
  ELSE row_moves(B, color, r, 0) \o scan_moves(B, color, r + 1)

generate_pseudo(B, color) == scan_moves(B, color, 0)

set_cell(g, r, c, v) == [g EXCEPT ![r][c] = v]

\* a slip in the four tests on the rook's source square: each flag is assigned
\* the test's outcome instead of being cleared when the test succeeds
rook_moved_assigned(castling, sq) ==
  [castling EXCEPT !.wQ = sq # <<7, 0>>, !.wK = sq # <<7, 7>>,
                   !.bQ = sq # <<0, 0>>, !.bK = sq # <<0, 7>>]

\* make_move, the four tests on the rook's source square
rook_moved(castling, sq) ==
  [castling EXCEPT !.wQ = @ /\ sq # <<7, 0>>, !.wK = @ /\ sq # <<7, 7>>,
                   !.bQ = @ /\ sq # <<0, 0>>, !.bK = @ /\ sq # <<0, 7>>]

\* make_move, the four tests on the square captured on
corner_captured(castling, sq) ==
  [castling EXCEPT !.wQ = @ /\ sq # <<7, 0>>, !.wK = @ /\ sq # <<7, 7>>,
                   !.bQ = @ /\ sq # <<0, 0>>, !.bK = @ /\ sq # <<0, 7>>]

\* a slip in the king's case: only the king-side flag of the color is cleared
king_moved_kingside(castling, color) ==
  IF color = WHITE THEN [castling EXCEPT !.wK = FALSE]
  ELSE [castling EXCEPT !.bK = FALSE]

king_moved(castling, color) ==
  IF color = WHITE THEN [castling EXCEPT !.wK = FALSE, !.wQ = FALSE]
  ELSE [castling EXCEPT !.bK = FALSE, !.bQ = FALSE]

\* a slip in the rook's relocation: the home corner is not emptied
castle_rook_copied(g, to) ==
  IF to = <<7, 6>> THEN set_cell(g, 7, 5, g[7][7])
  ELSE IF to = <<7, 2>> THEN set_cell(g, 7, 3, g[7][0])
  ELSE IF to = <<0, 6>> THEN set_cell(g, 0, 5, g[0][7])
  ELSE IF to = <<0, 2>> THEN set_cell(g, 0, 3, g[0][0])
  ELSE g

\* make_move, the rook's relocation of a castling move
castle_rook(g, to) ==
  IF to = <<7, 6>> THEN set_cell(set_cell(g, 7, 5, g[7][7]), 7, 7, Empty)
  ELSE IF to = <<7, 2>> THEN set_cell(set_cell(g, 7, 3, g[7][0]), 7, 0, Empty)
  ELSE IF to = <<0, 6>> THEN set_cell(set_cell(g, 0, 5, g[0][7]), 0, 7, Empty)
  ELSE IF to = <<0, 2>> THEN set_cell(set_cell(g, 0, 3, g[0][0]), 0, 0, Empty)
  ELSE g

\* a slip in make_move: en_passant is not cleared before it is recomputed
next_en_passant_kept(B, p, fr, fc, tr) ==
  IF p = "P" /\ abs(tr - fr) = 2 THEN <<(tr + fr) \div 2, fc>> ELSE B.en_passant

\* a slip in the target a double push leaves: the square the pawn lands on
next_en_passant_landing(B, p, fr, fc, tr) ==
  IF p = "P" /\ abs(tr - fr) = 2 THEN <<tr, fc>> ELSE NoSquare

\* make_move, the en_passant target it leaves: cleared, then set by a double push
next_en_passant(B, p, fr, fc, tr) ==
  IF p = "P" /\ abs(tr - fr) = 2 THEN <<(tr + fr) \div 2, fc>> ELSE NoSquare

\* a slip in the flip of the side to move: the test compares with WHITE
next_turn_kept(turn) == IF turn = WHITE THEN WHITE ELSE BLACK

\* make_move, the flip of the side to move
next_turn(turn) == IF turn = BLACK THEN WHITE ELSE BLACK

\* a slip in the row of the pawn captured en passant: the offset's sign
ep_captured_row_ahead(color, tr) == tr + (IF color = WHITE THEN -1 ELSE 1)

\* make_move, the row of the pawn captured en passant: cap_r
ep_captured_row(color, tr) == tr + (IF color = WHITE THEN 1 ELSE -1)

\* `color, p = piece` raises ValueError when the source square holds "."
make_move_raises(B, mv) == B.board[mv.fr[1]][mv.fr[2]] = Empty

\* make_move on a move whose source square holds a piece
make_move(B, mv) ==
  LET fr == mv.fr[1]
      fc == mv.fr[2]
      tr == mv.to[1]
      tc == mv.to[2]
      piece == B.board[fr][fc]
      color == piece[1]
      p == piece[2]
      captured == B.board[tr][tc] # Empty
      c1 == IF p = "K" THEN king_moved(B.castling, color) ELSE B.castling
      c2 == IF p = "R" THEN rook_moved(c1, mv.fr) ELSE c1
      c3 == IF captured THEN corner_captured(c2, mv.to) ELSE c2
      g1 == IF mv.is_en_passant
            THEN set_cell(B.board, ep_captured_row(color, tr), tc, Empty)
            ELSE B.board
      g2 == set_cell(set_cell(g1, fr, fc, Empty), tr, tc, piece)
      g3 == IF p = "P" /\ tr \in {0, 7}
            THEN set_cell(g2, tr, tc,
                          <<color, IF mv.promotion # NoPromo THEN mv.promotion ELSE "Q">>)
            ELSE g2
      g4 == IF mv.is_castle THEN castle_rook(g3, mv.to) ELSE g3
  IN [board |-> g4,
      turn |-> next_turn(B.turn),
      castling |-> c3,
      en_passant |-> next_en_passant(B, p, fr, fc, tr)]

\* a shallow copy: the clone shares the row lists and the castling dictionary
clone_shallow(B) == [obj |-> B, shares |-> {"board", "castling"}]

\* Board.clone: the new object and the mutable structures (the row lists, the
\* castling dictionary) it shares with the original; it copies both
clone(B) == [obj |-> B, shares |-> {}]

\* what a mutation of a clone's structures does to the object cloned
write_through(B, cl, after) ==
  [B EXCEPT !.board = IF "board" \in cl.shares THEN after.board ELSE @,
            !.castling = IF "castling" \in cl.shares THEN after.castling ELSE @]

\* the loop of legal_moves without its test: every pseudo-legal move is kept
legal_step_unfiltered(B, color, mv) == [out |-> <<mv>>, self |-> B, raised |-> FALSE]

\* one iteration of the loop of legal_moves, for the pseudo-legal move mv: the
\* moves it appends, the board legal_moves was called on as it is afterwards,
\* and whether it raised (b.make_move on an empty source square, or
\* b.in_check(color) with king_pos giving None to unpack)
legal_step(B, color, mv) ==
  LET cl == clone(B)
      b2 == make_move(cl.obj, mv)
      self == write_through(B, cl, b2)
      k == king_pos(b2.board, color)
  IN IF make_move_raises(cl.obj, mv)
     THEN [out |-> <<>>, self |-> B, raised |-> TRUE]
     ELSE IF k = NoSquare
     THEN [out |-> <<>>, self |-> self, raised |-> TRUE]
     ELSE [out |-> IF is_attacked(b2.board, k[1], k[2], other(color)) THEN <<>> ELSE <<mv>>,
           self |-> self, raised |-> FALSE]

\* the iterations lo..hi of the loop of legal_moves, in order (split in halves:
\* the second half runs on the board the first half leaves, unless it raised)
RECURSIVE legal_loop(_, _, _, _, _)
legal_loop(B, color, pseudo, lo, hi) ==
  IF lo > hi THEN [out |-> <<>>, self |-> B, raised |-> FALSE]
  ELSE IF lo = hi THEN legal_step(B, color, pseudo[lo])
  ELSE LET mid == (lo + hi) \div 2
           first == legal_loop(B, color, pseudo, lo, mid)
       IN IF first.raised THEN first
          ELSE LET rest == legal_loop(first.self, color, pseudo, mid + 1, hi)
               IN [out |-> first.out \o rest.out, self |-> rest.self,
                   raised |-> rest.raised]

\* legal_moves: .out is the list returned (when not .raised), .self the board
\* it was called on as the call leaves it
legal_moves(B, color) ==
  LET pseudo == generate_pseudo(B, color)
  IN legal_loop(B, color, pseudo, 1, Len(pseudo))

(***************************************************************************)
(* The games explored.  A game follows one of the lines of Book and may    *)
(* leave it by MaxFree arbitrary legal moves (MaxFreeGUI in the click-      *)
(* driven session); it ends after MaxPly moves.  A session of direct calls *)
(* applies at most MaxCalls moves.                                         *)
(***************************************************************************)
MaxPly == 11
MaxFree == 1
MaxFreeGUI == 0
MaxCalls == 1

N(fr, fc, tr, tc) == Move(<<fr, fc>>, <<tr, tc>>)

Book ==
  << \* e4 d5 Ke2 d4 Ke3 dxe3
     <<N(6, 4, 4, 4), N(1, 3, 3, 3), N(7, 4, 6, 4), N(3, 3, 4, 3), N(6, 4, 5, 4),
       N(4, 3, 5, 4)>>,
     \* Nf3 h5 e3 h4 Be2 h3 a3 hxg2 O-O gxf1=N
     <<N(7, 6, 5, 5), N(1, 7, 3, 7), N(6, 4, 5, 4), N(3, 7, 4, 7), N(7, 5, 6, 4),
       N(4, 7, 5, 7), N(6, 0, 5, 0), N(5, 7, 6, 6), castle(<<7, 4>>, <<7, 6>>),
       [N(6, 6, 7, 5) EXCEPT !.promotion = "N"]>>,
     \* e4 a6 e5 d5 exd6 e.p.
     <<N(6, 4, 4, 4), N(1, 0, 2, 0), N(4, 4, 3, 4), N(1, 3, 3, 3),
       [N(3, 4, 2, 3) EXCEPT !.is_en_passant = TRUE]>>,
     \* e4 a6 e5 d5 a3 h6
     <<N(6, 4, 4, 4), N(1, 0, 2, 0), N(4, 4, 3, 4), N(1, 3, 3, 3), N(6, 0, 5, 0),
       N(1, 7, 2, 7)>>,
     \* f3 e5 g4 Qh4 mate, and an attempt to go on with Kf2
     <<N(6, 5, 5, 5), N(1, 4, 3, 4), N(6, 6, 4, 6), N(0, 3, 4, 7), N(7, 4, 6, 5)>>,
     \* Nf3 Nf6 e3 e6 Be2 Be7 O-O O-O
     <<N(7, 6, 5, 5), N(0, 6, 2, 5), N(6, 4, 5, 4), N(1, 4, 2, 4), N(7, 5, 6, 4),
       N(0, 5, 1, 4), castle(<<7, 4>>, <<7, 6>>), castle(<<0, 4>>, <<0, 6>>)>>,
     \* d4 d5 Nc3 Nc6 Bf4 Bf5 Qd2 Qd7 O-O-O O-O-O
     <<N(6, 3, 4, 3), N(1, 3, 3, 3), N(7, 1, 5, 2), N(0, 1, 2, 2), N(7, 2, 4, 5),
       N(0, 2, 3, 5), N(7, 3, 6, 3), N(0, 3, 1, 3), castle(<<7, 4>>, <<7, 2>>),
       castle(<<0, 4>>, <<0, 2>>)>>,
     \* Nf3 h5 e3 h4 Be2 h3 a3 hxg2 a4 gxh1=Q
     <<N(7, 6, 5, 5), N(1, 7, 3, 7), N(6, 4, 5, 4), N(3, 7, 4, 7), N(7, 5, 6, 4),
       N(4, 7, 5, 7), N(6, 0, 5, 0), N(5, 7, 6, 6), N(5, 0, 4, 0),
       [N(6, 6, 7, 7) EXCEPT !.promotion = "Q"]>>,
     \* e4 c5 a3 c4 a4 c3 a5 cxd2 a6 dxe1=Q
     <<N(6, 4, 4, 4), N(1, 2, 3, 2), N(6, 0, 5, 0), N(3, 2, 4, 2), N(5, 0, 4, 0),
       N(4, 2, 5, 2), N(4, 0, 3, 0), N(5, 2, 6, 3), N(3, 0, 2, 0),
       [N(6, 3, 7, 4) EXCEPT !.promotion = "Q"]>>,
     \* e4 d5 Ke2 d4 c4 dxc3 e.p.
     <<N(6, 4, 4, 4), N(1, 3, 3, 3), N(7, 4, 6, 4), N(3, 3, 4, 3), N(6, 2, 4, 2),
       [N(4, 3, 5, 2) EXCEPT !.is_en_passant = TRUE]>> >>

VARIABLES
  b,         \* ChessGUI.b, the Board: board, turn, castling, en_passant
  selected,  \* ChessGUI.selected
  legal,     \* ChessGUI.legal
  played,    \* the moves applied so far, each with the color and kind of the piece moved
  last       \* the last operation: its name, whether it raised, whether its move was legal

vars == <<b, selected, legal, played, last>>

moves_of(h) == [i \in 1..Len(h) |-> h[i].mv]

\* the length of the longest prefix of ms that is a prefix of a line of Book
RECURSIVE book_depth(_, _)
book_depth(ms, k) ==
  IF k = 0 THEN 0
  ELSE IF \E i \in 1..Len(Book) :
            Len(Book[i]) >= k /\ \A j \in 1..k : Book[i][j] = ms[j]
       THEN k
       ELSE book_depth(ms, k - 1)

free_used(ms) == Len(ms) - book_depth(ms, Len(ms))

\* the moves a game of the bounded exploration may continue with
Allowed(mv, max_free) ==
  /\ Len(played) < MaxPly
  /\ free_used(Append(moves_of(played), mv)) <= max_free

\* some move may continue the game: a free one, or the next move of a line
MayContinue(max_free) ==
  /\ Len(played) < MaxPly
  /\ \/ free_used(moves_of(played)) < max_free
     \/ \E i \in 1..Len(Book) :
          /\ Len(Book[i]) > Len(played)
          /\ free_used(Append(moves_of(played), Book[i][Len(played) + 1])) <= max_free

Init ==
  /\ b = Board
  /\ selected = NoSquare
  /\ legal = <<>>
  /\ played = <<>>
  /\ last = [op |-> "init", raised |-> FALSE, legal |-> TRUE]

\* the entry of played for the move mv applied to B
record(B, mv) ==
  [mv |-> mv,
   by |-> color_at(B.board, mv.fr[1], mv.fr[2]),
   kind |-> IF B.board[mv.fr[1]][mv.fr[2]] = Empty THEN NoColor
            ELSE B.board[mv.fr[1]][mv.fr[2]][2]]

\* normal play: the caller takes a move from legal_moves(turn) and applies it
Play ==
  /\ MayContinue(MaxFree)
  /\ \E lm \in {legal_moves(b, b.turn)} :
       /\ ~lm.raised
       /\ \E i \in 1..Len(lm.out) :
            /\ Allowed(lm.out[i], MaxFree)
            /\ b' = make_move(lm.self, lm.out[i])
            /\ played' = Append(played, record(lm.self, lm.out[i]))
       /\ last' = [op |-> "make_move", raised |-> FALSE, legal |-> TRUE]
       /\ UNCHANGED <<selected, legal>>

Next == Play

Spec == Init /\ [][Next]_vars

(***************************************************************************)
(* Direct calls of the Board's methods, make_move with any move            *)
(***************************************************************************)
ApiSquares == {<<r, c>> : r \in {1, 4, 6, 7}, c \in {3, 4}}

\* the moves a caller hands to make_move without asking legal_moves
ArbitraryMoves == {Move(fr, to) : fr \in ApiSquares, to \in ApiSquares}

is_member(mv, seq) == \E i \in 1..Len(seq) : seq[i] = mv

\* a call of legal_moves(color)
ApiLegalMoves ==
  \E color \in {WHITE, BLACK} :
    \E lm \in {legal_moves(b, color)} :
      /\ b' = lm.self
      /\ last' = [op |-> "legal_moves", raised |-> lm.raised, legal |-> TRUE]
      /\ UNCHANGED <<selected, legal, played>>

\* a call of make_move(mv), mv from legal_moves(turn) or not
ApiMakeMove ==
  /\ Len(played) < MaxCalls
  /\ \E lm \in {legal_moves(b, b.turn)} :
       \E mv \in ArbitraryMoves \cup {lm.out[i] : i \in 1..Len(lm.out)} :
         IF make_move_raises(b, mv)
         THEN /\ last' = [op |-> "make_move", raised |-> TRUE, legal |-> FALSE]
              /\ UNCHANGED <<b, selected, legal, played>>
         ELSE /\ b' = make_move(b, mv)
              /\ played' = Append(played, record(b, mv))
              /\ last' = [op |-> "make_move", raised |-> FALSE,
                          legal |-> ~lm.raised /\ is_member(mv, lm.out)]
              /\ UNCHANGED <<selected, legal>>

NextApi == ApiLegalMoves \/ ApiMakeMove

SpecApi == Init /\ [][NextApi]_vars

(***************************************************************************)
(* The click-driven session: ChessGUI.on_click                             *)
(***************************************************************************)
\* (event.y - 40) // 60 and (event.x - 40) // 60 on the 520 x 560 canvas
ClickRows == -1..8
ClickCols == -1..7

\* draw, then check_game_over: in_check(turn) and legal_moves(turn) on the
\* board, either of which may raise
draw_and_check(B) ==
  IF in_check_raises(B.board, B.turn) THEN [self |-> B, raised |-> TRUE]
  ELSE LET lm == legal_moves(B, B.turn)
       IN [self |-> lm.self, raised |-> lm.raised]

\* [m for m in ... if m.fr == self.selected]
moves_from(seq, fr) == SelectSeq(seq, LAMBDA m : m.fr = fr)

\* the search for chosen: the first move from fr to target, in a list of at
\* most one element (empty for None)
first_match(seq, fr, target) ==
  LET hits == {i \in 1..Len(seq) : seq[i].fr = fr /\ seq[i].to = target}
  IN IF hits = {} THEN <<>>
     ELSE <<seq[CHOOSE i \in hits : \A j \in hits : i <= j]>>

\* the handler taking its moves from generate_pseudo, without the legality filter
click_moves_pseudo(B) ==
  [out |-> generate_pseudo(B, B.turn), self |-> B, raised |-> FALSE]

\* the call the handler makes for the moves it offers and applies
click_moves(B) == legal_moves(B, B.turn)

\* what last records of a click on a square of the board
clicked(raised) == [op |-> "on_click", raised |-> raised, legal |-> TRUE]

\* a click outside the board: the handler returns at once, nothing is done
OnClickOutside ==
  /\ {sq \in ClickRows \X ClickCols : ~in_bounds(sq[1], sq[2])} # {}
  /\ UNCHANGED vars

\* nothing selected, a click on a piece of the side to move
OnClickSelect ==
  /\ selected = NoSquare
  /\ \E lm \in {click_moves(b)} :
       IF lm.raised
       THEN \E r \in 0..7, c \in 0..7 :
              /\ color_at(b.board, r, c) = b.turn
              /\ selected' = <<r, c>>
              /\ b' = lm.self
              /\ last' = clicked(TRUE)
              /\ UNCHANGED <<legal, played>>
       ELSE \E tail \in {draw_and_check(lm.self)} :
              \E r \in 0..7, c \in 0..7 :
                /\ color_at(b.board, r, c) = b.turn
                /\ selected' = <<r, c>>
                /\ legal' = moves_from(lm.out, <<r, c>>)
                /\ b' = tail.self
                /\ last' = clicked(tail.raised)
                /\ UNCHANGED played

\* nothing selected, a click on any other square
OnClickOther ==
  /\ selected = NoSquare
  /\ {sq \in (0..7) \X (0..7) : color_at(b.board, sq[1], sq[2]) # b.turn} # {}
  /\ \E tail \in {draw_and_check(b)} :
       /\ b' = tail.self
       /\ last' = clicked(tail.raised)
  /\ UNCHANGED <<selected, legal, played>>

\* a square selected, a click on a target square: the move found is applied
\* (with the promotion ask_promo returns), or none is found
OnClickTarget ==
  /\ selected # NoSquare
  /\ \E lm \in {click_moves(b)} :
       IF lm.raised
       THEN /\ b' = lm.self
            /\ last' = clicked(TRUE)
            /\ UNCHANGED <<selected, legal, played>>
       ELSE /\ selected' = NoSquare
            /\ legal' = <<>>
            /\ \/ \* chosen is None for the square clicked
                  /\ {sq \in (0..7) \X (0..7) :
                        first_match(lm.out, selected, sq) = <<>>} # {}
                  /\ \E none \in {draw_and_check(lm.self)} :
                       /\ b' = none.self
                       /\ last' = clicked(none.raised)
                  /\ UNCHANGED played
               \/ \* chosen is the first move to the square clicked
                  \E r \in 0..7, c \in 0..7 :
                    \E chosen \in {first_match(lm.out, selected, <<r, c>>)} :
                      /\ chosen # <<>>
                      /\ \E promo \in IF chosen[1].promotion # NoPromo
                                       THEN {promo_kinds[i] : i \in 1..4}
                                       ELSE {NoPromo} :
                           \E mv \in {[chosen[1] EXCEPT !.promotion = promo]} :
                             /\ Allowed(mv, MaxFreeGUI)
                             /\ \E tail \in {draw_and_check(make_move(lm.self, mv))} :
                                  /\ b' = tail.self
                                  /\ last' = clicked(tail.raised)
                             /\ played' = Append(played, record(lm.self, mv))

NextGUI == OnClickOutside \/ OnClickSelect \/ OnClickOther \/ OnClickTarget

SpecGUI == Init /\ [][NextGUI]_vars

(***************************************************************************)
(* Definitions the claims are stated with                                  *)
(***************************************************************************)
Squares == {<<r, c>> : r \in 0..7, c \in 0..7}

kings(g, color) == {sq \in Squares : g[sq[1]][sq[2]] = <<color, "K">>}

\* by_color has a pseudo-legal move whose destination is sq
pseudo_reaches(B, by_color, sq) ==
  \E ps \in {generate_pseudo(B, by_color)} : \E j \in 1..Len(ps) : ps[j].to = sq

\* the last move applied, when there is one
last_move == played[Len(played)]

is_double_push(h) == h.kind = "P" /\ abs(h.mv.to[1] - h.mv.fr[1]) = 2

\* C1: after any move of legal_moves(turn) the opponent has no pseudo-legal
\* move onto the square of the mover's king
C1_NoSelfCheck ==
  \A lm \in {legal_moves(b, b.turn)} :
    ~lm.raised =>
      \A i \in 1..Len(lm.out) :
        \A after \in {make_move(b, lm.out[i])} :
          \A k \in kings(after.board, b.turn) :
            ~pseudo_reaches(after, other(b.turn), k)

\* C2: the board always holds exactly one king of each color, so king_pos is
\* never None and in_check never fails
C2_KingsPresent ==
  \A color \in {WHITE, BLACK} :
    /\ Cardinality(kings(b.board, color)) = 1
    /\ king_pos(b.board, color) # NoSquare
    /\ ~in_check_raises(b.board, color)

\* the attack geometry C3 describes: a by_color pawn one rank behind (r, c) in
\* by_color's advancing direction (white advances toward row 0), a knight on a
\* knight offset, a bishop/queen or rook/queen first on a ray, an adjacent king
geometry_attacks(g, r, c, by_color) ==
  \/ \E dc \in {-1, 1} :
       LET rr == IF by_color = WHITE THEN r + 1 ELSE r - 1
       IN in_bounds(rr, c + dc) /\ g[rr][c + dc] = <<by_color, "P">>
  \/ \E i \in 1..8 :
       /\ in_bounds(r + knight_offsets[i][1], c + knight_offsets[i][2])
       /\ g[r + knight_offsets[i][1]][c + knight_offsets[i][2]] = <<by_color, "N">>
  \/ \E i \in 1..4 :
       ray_attacks(g, r + diagonal_dirs[i][1], c + diagonal_dirs[i][2],
                   diagonal_dirs[i][1], diagonal_dirs[i][2], by_color, {"B", "Q"})
  \/ \E i \in 1..4 :
       ray_attacks(g, r + orthogonal_dirs[i][1], c + orthogonal_dirs[i][2],
                   orthogonal_dirs[i][1], orthogonal_dirs[i][2], by_color, {"R", "Q"})
  \/ \E i \in 1..8 :
       /\ in_bounds(r + king_offsets[i][1], c + king_offsets[i][2])
       /\ g[r + king_offsets[i][1]][c + king_offsets[i][2]] = <<by_color, "K">>

\* C3: is_attacked(r, c, by_color) is true exactly when by_color could capture
\* on (r, c): it agrees with the attack geometry on every square, and on a
\* square holding a piece of the other color it is true iff
\* generate_pseudo(by_color) has a move with that destination
C3_AttackedIffCapturable ==
  \A by_color \in {WHITE, BLACK} : \A sq \in Squares :
    /\ is_attacked(b.board, sq[1], sq[2], by_color)
         <=> geometry_attacks(b.board, sq[1], sq[2], by_color)
    /\ color_at(b.board, sq[1], sq[2]) = other(by_color) =>
         (is_attacked(b.board, sq[1], sq[2], by_color)
            <=> pseudo_reaches(b, by_color, sq))

\* the castling move mv: the rook's home corner, the columns strictly between
\* king and rook, and the squares the king stands on, passes over and lands on
rook_home(mv) == <<mv.fr[1], IF mv.to[2] = 6 THEN 7 ELSE 0>>
between_cols(mv) == IF mv.to[2] = 6 THEN {5, 6} ELSE {1, 2, 3}
king_path(mv) == {mv.fr, <<mv.fr[1], (mv.fr[2] + mv.to[2]) \div 2>>, mv.to}

\* the opponent of color could capture on sq: it has a pseudo-legal move onto
\* sq when a piece of color stands there
capturable_on(B, color, sq) ==
  IF B.board[sq[1]][sq[2]] = Empty
  THEN pseudo_reaches([B EXCEPT !.board = set_cell(@, sq[1], sq[2], <<color, "P">>)],
                      other(color), sq)
  ELSE pseudo_reaches(B, other(color), sq)

\* C4, the part on rights and occupancy: the king and that rook never moved,
\* nothing was captured on the rook's corner, the squares between are empty
castle_rights_ok(mv) ==
  /\ \A j \in 1..Len(played) :
       /\ ~(played[j].by = b.turn /\ played[j].kind = "K")
       /\ played[j].mv.fr # rook_home(mv)
       /\ played[j].mv.to # rook_home(mv)
  /\ b.board[mv.fr[1]][mv.fr[2]] = <<b.turn, "K">>
  /\ b.board[rook_home(mv)[1]][rook_home(mv)[2]] = <<b.turn, "R">>
  /\ \A c \in between_cols(mv) : b.board[mv.fr[1]][c] = Empty

\* C4: legal_moves(turn) has a castling move only if the king and that rook
\* never moved, the rook was not captured at home, the squares between are
\* empty, and the opponent can capture on none of the king's square, the
\* square it passes over and its destination
C4_CastlingPreconditions ==
  \A lm \in {legal_moves(b, b.turn)} :
    ~lm.raised =>
      \A i \in 1..Len(lm.out) :
        lm.out[i].is_castle =>
          /\ castle_rights_ok(lm.out[i])
          /\ \A sq \in king_path(lm.out[i]) : ~capturable_on(b, b.turn, sq)

\* C7: every move applied was taken from legal_moves(turn), moved a piece of the
\* side then to move, and handed the turn to the other side: the movers
\* alternate white, black, white, ...
C7_TurnAlternation ==
  /\ b.turn = IF Len(played) % 2 = 0 THEN WHITE ELSE BLACK
  /\ \A j \in 1..Len(played) : played[j].by = IF j % 2 = 1 THEN WHITE ELSE BLACK

C7_Witness == Len(played) = 4 /\ b.turn = WHITE /\ last_move.by = BLACK

\* C8: the four castling flags start true and none goes from false to true
C8_CastlingMonotone ==
  /\ \A k \in {"wK", "wQ", "bK", "bQ"} : b.castling[k]
  /\ [][\A k \in {"wK", "wQ", "bK", "bQ"} : b'.castling[k] => b.castling[k]]_vars

\* white lost both rights and at least two more moves were applied since
C8_Witness ==
  /\ ~b.castling.wK /\ ~b.castling.wQ
  /\ \E j \in 1..Len(played) : played[j].kind = "K" /\ played[j].by = WHITE /\ j + 2 <= Len(played)

\* C9: en_passant is the square passed over when the last move was a pawn's
\* double push and None after any other move; an en-passant move was taken
\* from legal_moves(turn) only right after a double push of the opponent
C9_EnPassantWindow ==
  /\ b.en_passant =
       IF Len(played) > 0 /\ is_double_push(last_move)
       THEN <<(last_move.mv.fr[1] + last_move.mv.to[1]) \div 2, last_move.mv.fr[2]>>
       ELSE NoSquare
  /\ \A j \in 1..Len(played) :
       played[j].mv.is_en_passant =>
         /\ j > 1
         /\ is_double_push(played[j - 1])
         /\ played[j - 1].by = other(played[j].by)
         /\ played[j].mv.to =
              <<(played[j - 1].mv.fr[1] + played[j - 1].mv.to[1]) \div 2,
                played[j - 1].mv.fr[2]>>

\* an en-passant capture was applied, one move after the double push
C9_Witness ==
  /\ Len(played) >= 2
  /\ last_move.mv.is_en_passant
  /\ is_double_push(played[Len(played) - 1])
  /\ b.en_passant = NoSquare

C6_IllegalMoveRejected ==
  [][(last'.op = "make_move" /\ ~last'.legal) => (last'.raised /\ b' = b)]_vars

\* legal_moves(turn) returns the empty list: checkmate or stalemate
game_over(B) == \E lm \in {legal_moves(B, B.turn)} : ~lm.raised /\ lm.out = <<>>

\* C10: once legal_moves(turn) is empty no click changes the board
C10_GameOverTerminal == [][b' = b \/ ~game_over(b)]_vars

\* a piece was selected by a click after the mate
C10_Witness ==
  /\ selected # NoSquare
  /\ last.op = "on_click"
  /\ Len(played) = 4
  /\ game_over(b)
  /\ in_check(b.board, b.turn)

\* the moves of seq made by a piece of the given kind on the board g
moves_of_kind(g, seq, kind) ==
  {i \in 1..Len(seq) : g[seq[i].fr[1]][seq[i].fr[2]][2] = kind}

\* C11: on the board Board() creates (before any move: white to move, the
\* four castling flags true, en_passant None) legal_moves(WHITE) has exactly
\* 20 moves, 16 of pawns and 4 of knights, none a castle, an en-passant
\* capture or a promotion
C11_InitialTwenty ==
  played = <<>> =>
    /\ b.turn = WHITE
    /\ \A k \in {"wK", "wQ", "bK", "bQ"} : b.castling[k]
    /\ b.en_passant = NoSquare
    /\ \A lm \in {legal_moves(b, WHITE)} :
         /\ ~lm.raised
         /\ Len(lm.out) = 20
         /\ Cardinality({lm.out[i] : i \in 1..Len(lm.out)}) = 20
         /\ Cardinality(moves_of_kind(b.board, lm.out, "P")) = 16
         /\ Cardinality(moves_of_kind(b.board, lm.out, "N")) = 4
         /\ \A i \in 1..Len(lm.out) :
              /\ ~lm.out[i].is_castle
              /\ ~lm.out[i].is_en_passant
              /\ lm.out[i].promotion = NoPromo

\* legal_moves was called on the initial position and returned
C11_Witness == played = <<>> /\ last.op = "legal_moves" /\ ~last.raised

\* f2f3, e7e5, g2g4, d8h4
FoolsMate == <<N(6, 5, 5, 5), N(1, 4, 3, 4), N(6, 6, 4, 6), N(0, 3, 4, 7)>>

\* C12: along f2f3 e7e5 g2g4 d8h4 from Board() each move is in
\* legal_moves(turn) when it is played, and in the position they give
\* legal_moves(WHITE) is empty and in_check(WHITE) is true
C12_FoolsMate ==
  \A n \in 0..4 :
    moves_of(played) = SubSeq(FoolsMate, 1, n) =>
      \A lm \in {legal_moves(b, b.turn)} :
        /\ ~lm.raised
        /\ n < 4 => is_member(FoolsMate[n + 1], lm.out)
        /\ n = 4 => /\ b.turn = WHITE
                    /\ lm.out = <<>>
                    /\ ~in_check_raises(b.board, WHITE)
                    /\ in_check(b.board, WHITE)

\* the four moves were taken from legal_moves and applied
C12_Witness == moves_of(played) = FoolsMate /\ last.op = "make_move" /\ last.legal

\* C13: after a castling move taken from legal_moves(turn) the mover's king
\* stands on the destination, a rook of the mover on the square the king
\* passed over, and the rook's home corner and the king's original square are
\* empty
C13_CastlingRelocatesRook ==
  (Len(played) > 0 /\ last_move.mv.is_castle) =>
    LET mv == last_move.mv
        over == <<mv.fr[1], (mv.fr[2] + mv.to[2]) \div 2>>
    IN /\ mv.fr = <<IF last_move.by = WHITE THEN 7 ELSE 0, 4>>
       /\ mv.to[1] = mv.fr[1] /\ mv.to[2] \in {2, 6}
       /\ last_move.kind = "K"
       /\ b.board[mv.to[1]][mv.to[2]] = <<last_move.by, "K">>
       /\ b.board[over[1]][over[2]] = <<last_move.by, "R">>
       /\ b.board[rook_home(mv)[1]][rook_home(mv)[2]] = Empty
       /\ b.board[mv.fr[1]][mv.fr[2]] = Empty

\* black has just castled queen-side, after white did
C13_Witness ==
  /\ Len(played) = 10
  /\ last_move.mv = castle(<<0, 4>>, <<0, 2>>)
  /\ played[9].mv = castle(<<7, 4>>, <<7, 2>>)
  /\ b.board[0][3] = <<BLACK, "R">>
  /\ b.board[7][3] = <<WHITE, "R">>

\* m, a move of the list seq generated on the board g, takes a pawn to row 0 or 7
reaches_last_row(g, m) == g[m.fr[1]][m.fr[2]][2] = "P" /\ m.to[1] \in {0, 7}

\* C14: generate_pseudo emits every pawn move to row 0 or 7 exactly four
\* times, once for each of Q, R, B, N, never with promotion unset; after such
\* a move make_move has put (color, promotion) on the destination, a queen
\* when promotion is unset; no pawn ever stands on row 0 or row 7
C14_PromotionComplete ==
  /\ \A color \in {WHITE, BLACK} :
       \A ps \in {generate_pseudo(b, color)} :
         \A i \in 1..Len(ps) :
           reaches_last_row(b.board, ps[i]) =>
             /\ ps[i].promotion # NoPromo
             /\ \A k \in 1..4 :
                  Cardinality({j \in 1..Len(ps) :
                                 /\ ps[j].fr = ps[i].fr /\ ps[j].to = ps[i].to
                                 /\ ps[j].promotion = promo_kinds[k]}) = 1
             /\ Cardinality({j \in 1..Len(ps) :
                               ps[j].fr = ps[i].fr /\ ps[j].to = ps[i].to}) = 4
  /\ (Len(played) > 0 /\ last_move.kind = "P" /\ last_move.mv.to[1] \in {0, 7}) =>
       b.board[last_move.mv.to[1]][last_move.mv.to[2]] =
         <<last_move.by,
           IF last_move.mv.promotion = NoPromo THEN "Q" ELSE last_move.mv.promotion>>
  /\ \A r \in {0, 7}, c \in 0..7 :
       b.board[r][c] = Empty \/ b.board[r][c][2] # "P"

\* a black pawn has just captured onto row 7 and became a knight
C14_Witness ==
  /\ Len(played) > 0
  /\ last_move.kind = "P" /\ last_move.mv.to[1] = 7 /\ last_move.mv.promotion = "N"
  /\ b.board[7][last_move.mv.to[2]] = <<BLACK, "N">>

\* the color and the rook's home corner a castling flag stands for
flag_color(k) == IF k \in {"wK", "wQ"} THEN WHITE ELSE BLACK
flag_corner(k) ==
  <<IF k \in {"wK", "wQ"} THEN 7 ELSE 0, IF k \in {"wK", "bK"} THEN 7 ELSE 0>>

\* the move h, applied to the board B, involves the flag k: the king of the
\* flag's color moved, that side's rook left its home corner, or a piece was
\* captured on that corner
involves_flag(B, h, k) ==
  \/ h.kind = "K" /\ h.by = flag_color(k)
  \/ h.kind = "R" /\ h.by = flag_color(k) /\ h.mv.fr = flag_corner(k)
  \/ h.mv.to = flag_corner(k) /\ B.board[h.mv.to[1]][h.mv.to[2]] # Empty

\* C15: a legal move clears a castling flag exactly when it involves the flag
\* (king of that color moved, that rook left its corner, capture on that
\* corner) and leaves every other flag as it was
C15_CastlingBookkeeping ==
  [][played' # played =>
       \A k \in {"wK", "wQ", "bK", "bQ"} :
         b'.castling[k] =
           (b.castling[k] /\ ~involves_flag(b, played'[Len(played')], k))]_vars

\* black has just captured on h1: white's king-side flag is gone, the other
\* three are kept
C15_Witness ==
  /\ Len(played) > 0
  /\ last_move.by = BLACK /\ last_move.mv.to = <<7, 7>>
  /\ ~b.castling.wK /\ b.castling.wQ /\ b.castling.bK /\ b.castling.bQ

pieces(g) == {sq \in Squares : g[sq[1]][sq[2]] # Empty}

\* C16: an en-passant move of legal_moves(turn) lands on an empty square, the
\* square beside the mover's pawn on the destination's column holds the
\* opponent's pawn that made a double push on the move before, and make_move
\* empties that square and the source, puts the mover's pawn on the
\* destination and changes no other square
C16_EnPassantCapture ==
  [][(played' # played /\ played'[Len(played')].mv.is_en_passant) =>
       LET h == played'[Len(played')]
           victim == <<h.mv.fr[1], h.mv.to[2]>>
       IN /\ h.kind = "P"
          /\ b.board[h.mv.to[1]][h.mv.to[2]] = Empty
          /\ b.board[victim[1]][victim[2]] = <<other(h.by), "P">>
          /\ Len(played) > 0
          /\ is_double_push(last_move)
          /\ last_move.by = other(h.by)
          /\ last_move.mv.to = victim
          /\ b'.board[victim[1]][victim[2]] = Empty
          /\ b'.board[h.mv.fr[1]][h.mv.fr[2]] = Empty
          /\ b'.board[h.mv.to[1]][h.mv.to[2]] = <<h.by, "P">>
          /\ \A sq \in Squares \ {victim, h.mv.fr, h.mv.to} :
               b'.board[sq[1]][sq[2]] = b.board[sq[1]][sq[2]]
          /\ Cardinality(pieces(b'.board)) = Cardinality(pieces(b.board)) - 1]_vars

\* black has just captured en passant on c3
C16_Witness ==
  /\ Len(played) > 0
  /\ last_move.mv.is_en_passant /\ last_move.by = BLACK
  /\ b.board[5][2] = <<BLACK, "P">> /\ b.board[4][2] = Empty /\ b.board[4][3] = Empty

\* C17: a castling flag that is true has its king and its rook at home: the
\* king of the flag's color on column 4 of its back row, a rook of that color
\* on the flag's corner
C17_FlagsImplyHome ==
  \A k \in {"wK", "wQ", "bK", "bQ"} :
    b.castling[k] =>
      /\ b.board[flag_corner(k)[1]][4] = <<flag_color(k), "K">>
      /\ b.board[flag_corner(k)[1]][flag_corner(k)[2]] = <<flag_color(k), "R">>

\* C18: an en_passant target (er, ec) is on row 2 or 5 and empty, the square
\* one row further in the last mover's direction holds a pawn of the side not
\* to move, and the square behind the target, the pawn's origin, is empty
C18_EnPassantWellFormed ==
  b.en_passant # NoSquare =>
    LET er == b.en_passant[1]
        ec == b.en_passant[2]
        dir == IF b.turn = BLACK THEN -1 ELSE 1
    IN /\ er \in {2, 5}
       /\ ec \in 0..7
       /\ er = IF b.turn = BLACK THEN 5 ELSE 2
       /\ b.board[er][ec] = Empty
       /\ b.board[er + dir][ec] = <<other(b.turn), "P">>
       /\ b.board[er - dir][ec] = Empty

\* black has just pushed a pawn two rows beside a white pawn on row 3
C18_Witness ==
  /\ b.en_passant = <<2, 3>> /\ b.turn = WHITE
  /\ b.board[3][3] = <<BLACK, "P">> /\ b.board[3][4] = <<WHITE, "P">>

\* C19: in the click-driven session, whenever a square is selected the cached
\* list is the legal moves of the current board from that square; the board
\* changes only on a click with a square selected, by make_move of a move of
\* legal_moves(turn) on the board as it is then, from the selected square; and
\* after every click on a square of the board with a square selected, selected
\* is None and the cached list is empty
C19_FreshLegalMoves ==
  /\ [](selected # NoSquare =>
          \A lm \in {legal_moves(b, b.turn)} :
            ~lm.raised /\ legal = moves_from(lm.out, selected))
  /\ [][/\ b' # b =>
            /\ selected # NoSquare
            /\ Len(played') = Len(played) + 1
            /\ \A lm \in {legal_moves(b, b.turn)} :
                 \A h \in {played'[Len(played')]} :
                   /\ ~lm.raised
                   /\ is_member(h.mv, lm.out)
                   /\ h.mv.fr = selected
                   /\ b' = make_move(b, h.mv)
        /\ selected # NoSquare => (selected' = NoSquare /\ legal' = <<>>)]_vars

====
